---- MODULE Spec2Model ----
(***************************************************************************)
(* Model of the Pretty Drive backend (src/main.py): the folder / file      *)
(* tree kept in the "folder" and "fileitem" collections, the upload        *)
(* directory, and the drive endpoints that read and change them.           *)
(*                                                                         *)
(* Identifier strings are modelled as pairs <<kind, n>>:                   *)
(*   <<"none",0>>   Python None (parameter absent)                         *)
(*   <<"empty",0>>  the empty string                                       *)
(*   <<"lo",i>>     the 24-digit lower-case hex text of ObjectId i,        *)
(*                  which is what str(ObjectId) produces                   *)
(*   <<"up",i>>     the same hex digits written in upper case, which       *)
(*                  ObjectId() parses to the same ObjectId i               *)
(*   <<"bad",0>>    a non-empty string that is no ObjectId text            *)
(* Names are sequences of characters so that str.strip() is computed.      *)
(***************************************************************************)
EXTENDS Integers, Sequences, FiniteSets, TLC

VARIABLES
    folders,   \* collection "folder":   _id -> [name, parent_id, created_at,
               \*                                  updated_at]
    files,     \* collection "fileitem": _id -> [name, parent_id, size, mime_type,
               \*                                  storage_path, created_at, updated_at]
    blobs,     \* paths that exist in UPLOAD_DIR
    nextId,    \* the next ObjectId the driver generates
    everPaths, \* history: every storage_path a file record has held
    resp,      \* the last response sent: [op, status]
    up,        \* upload_file request in progress
    del        \* delete_item(type = folder) request in progress, with the store
               \* as it was when the request began (pre) and the folders the
               \* request has removed so far (removed)

vars == <<folders, files, blobs, nextId, everPaths, resp, up, del>>

----------------------------------------------------------------------------
(* Bounds *)

MaxId == 3
MaxClock == 1

Ids == 1..MaxId
Clocks == 0..MaxClock

\* deepest nesting of delete_folder_recursive before Python raises RecursionError
RecursionLimit == MaxId + 1
\* iterations the loop of get_breadcrumbs is followed for: one more than there
\* can be folders
MaxCrumbs == MaxId + 1

----------------------------------------------------------------------------
(* Strings *)

None == <<"none", 0>>
Empty == <<"empty", 0>>
Bad == <<"bad", 0>>
Lo(i) == <<"lo", i>>
Up(i) == <<"up", i>>

\* ids whose upper-case spelling clients send
UpperIds == {1}

\* values a client sends as parent_id
ParentInputs == {None, Empty, Bad} \cup {Lo(i) : i \in Ids} \cup {Up(i) : i \in UpperIds}
\* values a client sends as a path parameter or RenameRequest.id
IdInputs == {Bad} \cup {Lo(i) : i \in Ids} \cup {Up(i) : i \in UpperIds}

\* values a client sends as the parent_id of an upload
FileParentInputs == {None, Empty} \cup {Lo(i) : i \in Ids}

SP == " "
\* names a client sends for a folder or a rename
NameInputs == {<<>>, <<SP>>, <<"a">>, <<SP, "b", SP>>}
\* filenames a client uploads
FileNameInputs == {<<"a">>, <<SP, "b", SP>>}

\* the content types a client declares for an upload ("" when it declares none)
ContentTypes == {"", "text/plain"}
\* the lengths of the contents a client uploads
Sizes == {2}
\* how lines 124-125 end: the bytes are written, open() raises (no file is
\* created), or the read or the write raises after open() has created the file
WriteOutcomes == {"written", "open_raises", "write_raises"}

\* the inputs of the specification of the tree, which renames nothing
TreeNameInputs == {<<>>, <<SP, "a", SP>>}
TreeFileNameInputs == {<<"a">>}
TreeContentTypes == {"text/plain"}
TreeStamps == {0}

\* the inputs of the specification of the names, which deletes no folder
NameParentInputs == {None, Lo(1), Lo(2)}
NameFileParentInputs == {None, Lo(1)}
NameClocks == {0}
NameStamps == {0}
NameContentTypes == {"text/plain"}

\* the inputs of the specification of the items, which has no folder tree
ItemNameInputs == {<<"a">>}
ItemRenameInputs == {<<SP>>, <<SP, "b", SP>>}
ItemParentInputs == {None}
ItemStamps == {0}
ItemRenameStamps == {1}

\* the inputs of the specification of the concurrent requests
ConcParentInputs == {None, Lo(1), Lo(2)}
ConcIdInputs == {Lo(i) : i \in Ids}

\* Python truthiness of an Optional[str]
Falsy(s) == s \in {None, Empty}

\* `x or None`
OrNone(s) == IF Falsy(s) THEN None ELSE s

\* whether bson.ObjectId(s) accepts the string
IsOidText(s) == s[1] \in {"lo", "up"}

\* bson.ObjectId(s) for an accepted string
ObjectId(s) == s[2]

\* str(ObjectId)
StrOf(i) == Lo(i)

\* the ObjectId no document has (find_one({"_id": None}) matches nothing)
NoOid == 0

\* the status of a request that is never answered
NoResponse == 0

\* oid(): None for a falsy string, HTTP 400 for a string ObjectId rejects
OidRaises(s) == ~Falsy(s) /\ ~IsOidText(s)
oid(s) == IF Falsy(s) THEN NoOid ELSE ObjectId(s)

RECURSIVE LStrip(_)
LStrip(s) == IF s # <<>> /\ Head(s) = SP THEN LStrip(Tail(s)) ELSE s

RECURSIVE RStrip(_)
RStrip(s) ==
    IF s # <<>> /\ s[Len(s)] = SP THEN RStrip(SubSeq(s, 1, Len(s) - 1)) ELSE s

\* str.strip()
Strip(s) == RStrip(LStrip(s))

\* the list left in the order it was collected in
NotReversed(s) == s

\* list.reverse()
Reverse(s) == [i \in 1..Len(s) |-> s[Len(s) + 1 - i]]

----------------------------------------------------------------------------
(* Collections *)

Remove(col, id) == [i \in DOMAIN col \ {id} |-> col[i]]

\* find_one({"_id": x}) on the folder collection: the _id found, or NoOid
FindFolder(x) == IF x \in DOMAIN folders THEN x ELSE NoOid
FindFile(x) == IF x \in DOMAIN files THEN x ELSE NoOid

\* find({"parent_id": p}): the _ids of the matching documents
FoldersWithParent(p) == {i \in DOMAIN folders : folders[i].parent_id = p}
FilesWithParent(p) == {i \in DOMAIN files : files[i].parent_id = p}

\* the mime_type of an upload that declares no content type
DefaultMimeType == "application/octet-stream"

\* os.path.join(UPLOAD_DIR, f"{datetime.now().timestamp()}_{safe_name}")
DestPath(t, name) == <<t, name>>

Idle == up.pc = "idle" /\ del.pc = "idle"

UpIdle == [pc |-> "idle"]
DelIdle == [pc |-> "idle"]

Resp(op, status) == [op |-> op, status |-> status]

Init ==
    /\ folders = <<>>
    /\ files = <<>>
    /\ blobs = {}
    /\ nextId = 1
    /\ everPaths = {}
    /\ resp = Resp("none", 0)
    /\ up = UpIdle
    /\ del = DelIdle

----------------------------------------------------------------------------
(* POST /drive/folder *)

\* create_folder testing the stripped name and storing payload.name as sent
create_folder_unstripped(name, parent_id, now) ==
    /\ nextId <= MaxId
    /\ LET doc == [name |-> name, parent_id |-> OrNone(parent_id),
                   created_at |-> now, updated_at |-> now] IN
       IF Strip(name) = <<>>
       THEN /\ resp' = Resp("create_folder", 400)
            /\ UNCHANGED <<folders, nextId>>
       ELSE /\ folders' = folders @@ (nextId :> doc)
            /\ nextId' = nextId + 1
            /\ resp' = Resp("create_folder", 200)
    /\ UNCHANGED <<files, blobs, everPaths, up, del>>

create_folder(name, parent_id, now) ==
    /\ nextId <= MaxId
    /\ LET doc == [name |-> Strip(name), parent_id |-> OrNone(parent_id),
                   created_at |-> now, updated_at |-> now] IN
       IF doc.name = <<>>
       THEN /\ resp' = Resp("create_folder", 400)
            /\ UNCHANGED <<folders, nextId>>
       ELSE /\ folders' = folders @@ (nextId :> doc)
            /\ nextId' = nextId + 1
            /\ resp' = Resp("create_folder", 200)
    /\ UNCHANGED <<files, blobs, everPaths, up, del>>

----------------------------------------------------------------------------
(* GET /drive/list *)

CharRank(c) == CASE c = SP -> 0 [] c = "a" -> 1 [] c = "b" -> 2

RECURSIVE NameLess(_, _)
\* s < t for Python strings
NameLess(s, t) ==
    IF t = <<>> THEN FALSE
    ELSE IF s = <<>> THEN TRUE
    ELSE IF Head(s) # Head(t) THEN CharRank(Head(s)) < CharRank(Head(t))
    ELSE NameLess(Tail(s), Tail(t))

RECURSIVE SortByName(_, _)
\* cursor.sort("name", 1): the documents of ids in name order (ties in _id order)
SortByName(col, ids) ==
    IF ids = {} THEN <<>>
    ELSE LET first == CHOOSE i \in ids : \A j \in ids \ {i} :
                          \/ NameLess(col[i].name, col[j].name)
                          \/ (col[i].name = col[j].name /\ i < j)
         IN <<[_id |-> StrOf(first), name |-> col[first].name,
               parent_id |-> col[first].parent_id]>>
            \o SortByName(col, ids \ {first})

\* the body of the 200 response of list_items
ListFolders(parent_id) ==
    SortByName(folders, FoldersWithParent(IF Falsy(parent_id) THEN None ELSE parent_id))
ListFiles(parent_id) ==
    SortByName(files, FilesWithParent(IF Falsy(parent_id) THEN None ELSE parent_id))

list_items(parent_id) ==
    /\ resp' = Resp("list_items", 200)
    /\ UNCHANGED <<folders, files, blobs, nextId, everPaths, up, del>>

----------------------------------------------------------------------------
(* POST /drive/upload *)

\* lines 122-137 with the record inserted before the bytes are written
upload_record_first(parent_id, filename, content_type, size, now, outcome) ==
    /\ up.pc = "idle"
    /\ nextId <= MaxId
    /\ LET dest_path == DestPath(now, filename)
           doc == [name |-> filename, parent_id |-> OrNone(parent_id), size |-> size,
                   mime_type |-> IF content_type = "" THEN DefaultMimeType
                                 ELSE content_type,
                   storage_path |-> dest_path, created_at |-> now, updated_at |-> now]
       IN /\ files' = files @@ (nextId :> doc)
          /\ everPaths' = everPaths \cup {dest_path}
          /\ blobs' = IF outcome = "open_raises" THEN blobs ELSE blobs \cup {dest_path}
          /\ up' = IF outcome = "written"
                   THEN [pc |-> "done", status |-> 200, id |-> nextId,
                         fresh |-> dest_path \notin everPaths]
                   ELSE [pc |-> "done", status |-> 500]
    /\ nextId' = nextId + 1
    /\ resp' = Resp("none", 0)
    /\ UNCHANGED <<folders, del>>

\* lines 122-125: the path is built from the wall clock and the filename, and
\* the file is opened for writing, which creates it or truncates it; open()
\* raising ends the request with a 500.  datetime.now() is the wall clock:
\* nothing orders or separates the values two requests read, so the value
\* read is an input.
upload_open(parent_id, filename, content_type, size, now, outcome) ==
    /\ up.pc = "idle"
    /\ nextId <= MaxId
    /\ LET dest_path == DestPath(now, filename) IN
       CASE outcome = "open_raises" ->
               /\ up' = [pc |-> "done", status |-> 500]
               /\ UNCHANGED blobs
         [] outcome = "write_raises" ->
               /\ up' = [pc |-> "done", status |-> 500]
               /\ blobs' = blobs \cup {dest_path}
         [] outcome = "written" ->
               /\ up' = [pc |-> "written", parent_id |-> parent_id,
                         safe_name |-> filename, content_type |-> content_type,
                         size |-> size, dest_path |-> dest_path]
               /\ blobs' = blobs \cup {dest_path}
    /\ resp' = Resp("none", 0)
    /\ UNCHANGED <<folders, files, nextId, everPaths, del>>

\* lines 126-138: the record is inserted after the bytes are written
upload_insert(now) ==
    /\ up.pc = "written"
    /\ LET doc == [name |-> up.safe_name, parent_id |-> OrNone(up.parent_id),
                   size |-> up.size,
                   mime_type |-> IF up.content_type = "" THEN DefaultMimeType
                                 ELSE up.content_type,
                   storage_path |-> up.dest_path,
                   created_at |-> now, updated_at |-> now] IN
       /\ files' = files @@ (nextId :> doc)
       /\ everPaths' = everPaths \cup {up.dest_path}
       /\ up' = [pc |-> "done", status |-> 200, id |-> nextId,
                 fresh |-> up.dest_path \notin everPaths]
    /\ nextId' = nextId + 1
    /\ UNCHANGED <<folders, blobs, resp, del>>

upload_return ==
    /\ up.pc = "done"
    /\ resp' = Resp("upload_file", up.status)
    /\ up' = UpIdle
    /\ UNCHANGED <<folders, files, blobs, nextId, everPaths, del>>

----------------------------------------------------------------------------
(* GET /drive/download/{file_id} *)

NotServed(status) == [status |-> status]

\* download_file serving whatever path the record names
DownloadUnchecked(file_id) ==
    IF OidRaises(file_id) THEN NotServed(400)
    ELSE IF FindFile(oid(file_id)) = NoOid THEN NotServed(404)
    ELSE LET doc == files[oid(file_id)]
         IN [status |-> 200, path |-> doc.storage_path,
             media_type |-> doc.mime_type, filename |-> doc.name]

\* the response of download_file(file_id).  Every record is inserted by
\* upload_file with a non-empty storage_path, so `not path` is os.path.exists
\* alone.
Download(file_id) ==
    IF OidRaises(file_id) THEN NotServed(400)
    ELSE IF FindFile(oid(file_id)) = NoOid THEN NotServed(404)
    ELSE LET doc == files[oid(file_id)]
         IN IF doc.storage_path \notin blobs THEN NotServed(404)
            ELSE [status |-> 200, path |-> doc.storage_path,
                  media_type |-> doc.mime_type, filename |-> doc.name]

download_file(file_id) ==
    /\ resp' = Resp("download_file", Download(file_id).status)
    /\ UNCHANGED <<folders, files, blobs, nextId, everPaths, up, del>>

----------------------------------------------------------------------------
(* PATCH /drive/rename *)

\* rename_item with created_at in the $set next to updated_at
rename_item_sets_created(id, type, name, now) ==
    /\ LET new_name == Strip(name) IN
       IF new_name = <<>> \/ OidRaises(id)
       THEN /\ resp' = Resp("rename_item", 400)
            /\ UNCHANGED <<folders, files>>
       ELSE IF type = "file"
       THEN IF FindFile(oid(id)) = NoOid
            THEN /\ resp' = Resp("rename_item", 404)
                 /\ UNCHANGED <<folders, files>>
            ELSE /\ files' = [files EXCEPT ![oid(id)].name = new_name,
                                           ![oid(id)].updated_at = now,
                                           ![oid(id)].created_at = now]
                 /\ resp' = Resp("rename_item", 200)
                 /\ UNCHANGED folders
       ELSE IF FindFolder(oid(id)) = NoOid
            THEN /\ resp' = Resp("rename_item", 404)
                 /\ UNCHANGED <<folders, files>>
            ELSE /\ folders' = [folders EXCEPT ![oid(id)].name = new_name,
                                               ![oid(id)].updated_at = now,
                                               ![oid(id)].created_at = now]
                 /\ resp' = Resp("rename_item", 200)
                 /\ UNCHANGED files
    /\ UNCHANGED <<blobs, nextId, everPaths, up, del>>

\* rename_item testing the stripped name and storing payload.name as sent
rename_item_unstripped(id, type, name, now) ==
    /\ IF Strip(name) = <<>> \/ OidRaises(id)
       THEN /\ resp' = Resp("rename_item", 400)
            /\ UNCHANGED <<folders, files>>
       ELSE IF type = "file"
       THEN IF FindFile(oid(id)) = NoOid
            THEN /\ resp' = Resp("rename_item", 404)
                 /\ UNCHANGED <<folders, files>>
            ELSE /\ files' = [files EXCEPT ![oid(id)].name = name,
                                           ![oid(id)].updated_at = now]
                 /\ resp' = Resp("rename_item", 200)
                 /\ UNCHANGED folders
       ELSE IF FindFolder(oid(id)) = NoOid
            THEN /\ resp' = Resp("rename_item", 404)
                 /\ UNCHANGED <<folders, files>>
            ELSE /\ folders' = [folders EXCEPT ![oid(id)].name = name,
                                               ![oid(id)].updated_at = now]
                 /\ resp' = Resp("rename_item", 200)
                 /\ UNCHANGED files
    /\ UNCHANGED <<blobs, nextId, everPaths, up, del>>

\* rename_item looking the id up in both collections, whatever the type
rename_item_any_kind(id, type, name, now) ==
    /\ LET new_name == Strip(name) IN
       IF new_name = <<>> \/ OidRaises(id)
       THEN /\ resp' = Resp("rename_item", 400)
            /\ UNCHANGED <<folders, files>>
       ELSE IF FindFile(oid(id)) # NoOid
       THEN /\ files' = [files EXCEPT ![oid(id)].name = new_name,
                                      ![oid(id)].updated_at = now]
            /\ resp' = Resp("rename_item", 200)
            /\ UNCHANGED folders
       ELSE IF FindFolder(oid(id)) # NoOid
       THEN /\ folders' = [folders EXCEPT ![oid(id)].name = new_name,
                                          ![oid(id)].updated_at = now]
            /\ resp' = Resp("rename_item", 200)
            /\ UNCHANGED files
       ELSE /\ resp' = Resp("rename_item", 404)
            /\ UNCHANGED <<folders, files>>
    /\ UNCHANGED <<blobs, nextId, everPaths, up, del>>

rename_item(id, type, name, now) ==
    /\ LET new_name == Strip(name) IN
       IF new_name = <<>>
       THEN /\ resp' = Resp("rename_item", 400)
            /\ UNCHANGED <<folders, files>>
       ELSE IF OidRaises(id)
       THEN /\ resp' = Resp("rename_item", 400)
            /\ UNCHANGED <<folders, files>>
       ELSE IF type = "file"
       THEN IF FindFile(oid(id)) = NoOid
            THEN /\ resp' = Resp("rename_item", 404)
                 /\ UNCHANGED <<folders, files>>
            ELSE /\ files' = [files EXCEPT ![oid(id)].name = new_name,
                                           ![oid(id)].updated_at = now]
                 /\ resp' = Resp("rename_item", 200)
                 /\ UNCHANGED folders
       ELSE IF FindFolder(oid(id)) = NoOid
            THEN /\ resp' = Resp("rename_item", 404)
                 /\ UNCHANGED <<folders, files>>
            ELSE /\ folders' = [folders EXCEPT ![oid(id)].name = new_name,
                                               ![oid(id)].updated_at = now]
                 /\ resp' = Resp("rename_item", 200)
                 /\ UNCHANGED files
    /\ UNCHANGED <<blobs, nextId, everPaths, up, del>>

----------------------------------------------------------------------------
(* DELETE /drive/item/{item_id} *)

\* lines 178-182 and 190-194: the blob is removed when the record has a path
\* and the path exists; os.remove raising is swallowed and leaves the blob
RemoveBlob(doc, removeFails) ==
    IF doc.storage_path \in blobs /\ ~removeFails
    THEN blobs \ {doc.storage_path}
    ELSE blobs

\* lines 173-184 with delete_one inside the try block, so that os.remove raising
\* skips it
delete_file_in_try(item_id, removeFails) ==
    /\ IF OidRaises(item_id)
       THEN /\ resp' = Resp("delete_file", 400)
            /\ UNCHANGED <<files, blobs>>
       ELSE IF FindFile(oid(item_id)) = NoOid
       THEN /\ resp' = Resp("delete_file", 404)
            /\ UNCHANGED <<files, blobs>>
       ELSE /\ blobs' = RemoveBlob(files[oid(item_id)], removeFails)
            /\ files' = IF removeFails /\ files[oid(item_id)].storage_path \in blobs
                        THEN files
                        ELSE Remove(files, oid(item_id))
            /\ resp' = Resp("delete_file", 200)
    /\ UNCHANGED <<folders, nextId, everPaths, up, del>>

\* lines 173-184: type = "file"
delete_file(item_id, removeFails) ==
    /\ IF OidRaises(item_id)
       THEN /\ resp' = Resp("delete_file", 400)
            /\ UNCHANGED <<files, blobs>>
       ELSE IF FindFile(oid(item_id)) = NoOid
       THEN /\ resp' = Resp("delete_file", 404)
            /\ UNCHANGED <<files, blobs>>
       ELSE /\ blobs' = RemoveBlob(files[oid(item_id)], removeFails)
            /\ files' = Remove(files, oid(item_id))
            /\ resp' = Resp("delete_file", 200)
    /\ UNCHANGED <<folders, nextId, everPaths, up, del>>

----------------------------------------------------------------------------
(* DELETE /drive/item/{item_id}, type = "folder": delete_folder_recursive *)

\* a call of delete_folder_recursive(folder_id) that skips the loop over the
\* files
FrameWithoutFiles(folder_id) ==
    [folder_id |-> folder_id, at |-> "files", todo |-> {}]

\* a call of delete_folder_recursive(folder_id) at line 189, where it opens the
\* cursor over the files whose parent_id is str(folder_id)
Frame(folder_id) ==
    [folder_id |-> folder_id, at |-> "files", todo |-> FilesWithParent(StrOf(folder_id))]

Top == del.stack[Len(del.stack)]
SetTop(f) == [del EXCEPT !.stack[Len(del.stack)] = f]

DelDone(status) ==
    [pc |-> "done", status |-> status, item_id |-> del.item_id, target |-> del.target,
     pre |-> del.pre, removed |-> del.removed, stack |-> <<>>]

\* lines 201-204 without the test of line 202: the recursion is entered for an
\* id that no folder record has
delete_folder_start_unchecked(item_id) ==
    /\ del.pc = "idle"
    /\ LET pre == [folders |-> folders, files |-> files, blobs |-> blobs] IN
       IF OidRaises(item_id)
       THEN del' = [pc |-> "done", status |-> 400, item_id |-> item_id,
                    target |-> NoOid, pre |-> pre, removed |-> {}, stack |-> <<>>]
       ELSE del' = [pc |-> "run", status |-> 0, item_id |-> item_id,
                    target |-> oid(item_id), pre |-> pre, removed |-> {},
                    stack |-> <<Frame(oid(item_id))>>]
    /\ resp' = Resp("none", 0)
    /\ UNCHANGED <<folders, files, blobs, nextId, everPaths, up>>

\* lines 201-204: the folder is looked up and the recursion entered
delete_folder_start(item_id) ==
    /\ del.pc = "idle"
    /\ LET pre == [folders |-> folders, files |-> files, blobs |-> blobs] IN
       IF OidRaises(item_id)
       THEN del' = [pc |-> "done", status |-> 400, item_id |-> item_id,
                    target |-> NoOid, pre |-> pre, removed |-> {}, stack |-> <<>>]
       ELSE IF FindFolder(oid(item_id)) = NoOid
       THEN del' = [pc |-> "done", status |-> 404, item_id |-> item_id,
                    target |-> NoOid, pre |-> pre, removed |-> {}, stack |-> <<>>]
       ELSE del' = [pc |-> "run", status |-> 0, item_id |-> item_id,
                    target |-> oid(item_id), pre |-> pre, removed |-> {},
                    stack |-> <<Frame(oid(item_id))>>]
    /\ resp' = Resp("none", 0)
    /\ UNCHANGED <<folders, files, blobs, nextId, everPaths, up>>

\* lines 190-195: one iteration of the loop over the files
delete_one_file(removeFails) ==
    /\ del.pc = "run" /\ Top.at = "files" /\ Top.todo # {}
    /\ \E f \in Top.todo :
        /\ IF f \in DOMAIN files
           THEN /\ blobs' = RemoveBlob(files[f], removeFails)
                /\ files' = Remove(files, f)
           ELSE UNCHANGED <<files, blobs>>
        /\ del' = SetTop([Top EXCEPT !.todo = Top.todo \ {f}])
    /\ UNCHANGED <<folders, nextId, everPaths, resp, up>>

\* line 197 with the ObjectId itself as the filter value, which equals no
\* stored parent_id string
delete_find_subfolders_by_oid ==
    /\ del.pc = "run" /\ Top.at = "files" /\ Top.todo = {}
    /\ del' = SetTop([Top EXCEPT !.at = "subs", !.todo = {}])
    /\ UNCHANGED <<folders, files, blobs, nextId, everPaths, resp, up>>

\* line 197: the cursor over the folders whose parent_id is str(folder_id)
delete_find_subfolders ==
    /\ del.pc = "run" /\ Top.at = "files" /\ Top.todo = {}
    /\ del' = SetTop([Top EXCEPT !.at = "subs",
                                 !.todo = FoldersWithParent(StrOf(Top.folder_id))])
    /\ UNCHANGED <<folders, files, blobs, nextId, everPaths, resp, up>>

\* line 198 deleting the subfolder's record instead of recursing into it
delete_descend_shallow ==
    /\ del.pc = "run" /\ Top.at = "subs" /\ Top.todo # {}
    /\ \E sub \in Top.todo :
        /\ folders' = Remove(folders, sub)
        /\ del' = SetTop([Top EXCEPT !.todo = Top.todo \ {sub}])
    /\ UNCHANGED <<files, blobs, nextId, everPaths, resp, up>>

\* line 198: the recursive call on one subfolder; past the interpreter's
\* recursion limit the call raises RecursionError and the request ends with 500
delete_descend ==
    /\ del.pc = "run" /\ Top.at = "subs" /\ Top.todo # {}
    /\ \E sub \in Top.todo :
        IF Len(del.stack) >= RecursionLimit
        THEN del' = DelDone(500)
        ELSE del' = [del EXCEPT !.stack =
                        Append(SetTop([Top EXCEPT !.todo = Top.todo \ {sub}]).stack,
                               Frame(sub))]
    /\ UNCHANGED <<folders, files, blobs, nextId, everPaths, resp, up>>

\* line 200: the folder's own record is deleted and the call returns
delete_folder_self ==
    /\ del.pc = "run" /\ Top.at = "subs" /\ Top.todo = {}
    /\ folders' = Remove(folders, Top.folder_id)
    /\ del' = IF Len(del.stack) = 1
              THEN [DelDone(200) EXCEPT !.removed = @ \cup {Top.folder_id}]
              ELSE [del EXCEPT !.stack = SubSeq(del.stack, 1, Len(del.stack) - 1),
                               !.removed = @ \cup {Top.folder_id}]
    /\ UNCHANGED <<files, blobs, nextId, everPaths, resp, up>>

delete_folder_return ==
    /\ del.pc = "done"
    /\ resp' = Resp("delete_folder", del.status)
    /\ del' = DelIdle
    /\ UNCHANGED <<folders, files, blobs, nextId, everPaths, up>>

----------------------------------------------------------------------------
(* GET /drive/breadcrumbs/{folder_id} *)

Crumb(id) == [_id |-> StrOf(id), name |-> folders[id].name]

RECURSIVE Walk(_, _, _)
\* lines 213-220: the while loop from `current` with `crumbs` collected, followed
\* for at most `fuel` iterations.  The loop reads the collection and changes
\* nothing, so a walk still running after more iterations than there are
\* folders has come back to a folder it has visited and never ends.
Walk(current, crumbs, fuel) ==
    IF current = NoOid
    THEN [status |-> 200, breadcrumbs |-> Reverse(crumbs)]
    ELSE IF fuel = 0
    THEN [status |-> NoResponse, breadcrumbs |-> crumbs]
    ELSE LET next == Append(crumbs, Crumb(current))
             pid == folders[current].parent_id
         IN IF Falsy(pid)
            THEN [status |-> 200, breadcrumbs |-> Reverse(next)]
            ELSE IF ~IsOidText(pid)
            THEN [status |-> 500, breadcrumbs |-> <<>>]
            ELSE Walk(FindFolder(ObjectId(pid)), next, fuel - 1)

\* get_breadcrumbs answering 404 when the start folder is not found
BreadcrumbsOr404(folder_id) ==
    IF OidRaises(folder_id)
    THEN [status |-> 400, breadcrumbs |-> <<>>]
    ELSE IF FindFolder(oid(folder_id)) = NoOid
    THEN [status |-> 404, breadcrumbs |-> <<>>]
    ELSE Walk(FindFolder(oid(folder_id)), <<>>, MaxCrumbs)

\* the response of get_breadcrumbs(folder_id)
Breadcrumbs(folder_id) ==
    IF OidRaises(folder_id)
    THEN [status |-> 400, breadcrumbs |-> <<>>]
    ELSE Walk(FindFolder(oid(folder_id)), <<>>, MaxCrumbs)

get_breadcrumbs(folder_id) ==
    /\ resp' = Resp("get_breadcrumbs", Breadcrumbs(folder_id).status)
    /\ UNCHANGED <<folders, files, blobs, nextId, everPaths, up, del>>

----------------------------------------------------------------------------
(* In Spec, NameSpec, ItemSpec and PairSpec requests are served one at a     *)
(* time; in ConcSpec their steps interleave.  Spec is the tree and its      *)
(* blobs under every operation but rename and download; NameSpec is the     *)
(* names under create, upload and rename, on a small tree.                  *)

UploadSteps(stamps) == (\E t \in stamps : upload_insert(t)) \/ upload_return

DeleteSteps ==
    \/ \E f \in BOOLEAN : delete_one_file(f)
    \/ delete_find_subfolders
    \/ delete_descend
    \/ delete_folder_self
    \/ delete_folder_return

Next ==
    \/ Idle /\ \E n \in TreeNameInputs, p \in ParentInputs, t \in TreeStamps :
                  create_folder(n, p, t)
    \/ Idle /\ \E p \in ParentInputs : list_items(p)
    \/ Idle /\ \E p \in FileParentInputs, n \in TreeFileNameInputs,
                  c \in TreeContentTypes, z \in Sizes, t \in Clocks,
                  o \in WriteOutcomes : upload_open(p, n, c, z, t, o)
    \/ UploadSteps(TreeStamps)
    \/ Idle /\ \E i \in IdInputs, f \in BOOLEAN : delete_file(i, f)
    \/ Idle /\ \E i \in IdInputs : delete_folder_start(i)
    \/ DeleteSteps
    \/ Idle /\ \E i \in IdInputs : get_breadcrumbs(i)

Spec == Init /\ [][Next]_vars

NameNext ==
    \/ Idle /\ \E n \in NameInputs, p \in NameParentInputs, t \in NameStamps :
                  create_folder(n, p, t)
    \/ Idle /\ \E p \in NameParentInputs : list_items(p)
    \/ Idle /\ \E p \in NameFileParentInputs, n \in FileNameInputs,
                  c \in NameContentTypes, z \in Sizes, t \in NameClocks,
                  o \in WriteOutcomes : upload_open(p, n, c, z, t, o)
    \/ UploadSteps(NameStamps)
    \/ Idle /\ \E i \in IdInputs, k \in {"file", "folder"}, n \in NameInputs,
                  t \in NameStamps : rename_item(i, k, n, t)
    \/ Idle /\ \E i \in IdInputs, f \in BOOLEAN : delete_file(i, f)
    \/ Idle /\ \E i \in IdInputs : get_breadcrumbs(i)

NameSpec == Init /\ [][NameNext]_vars

\* ItemSpec is the records and their blobs under create, upload, rename,
\* download and the delete of a file.
ItemNext ==
    \/ Idle /\ \E n \in ItemNameInputs, p \in ItemParentInputs, t \in ItemStamps :
                  create_folder(n, p, t)
    \/ Idle /\ \E p \in ItemParentInputs, n \in ItemNameInputs, c \in ContentTypes,
                  z \in Sizes, t \in Clocks, o \in WriteOutcomes :
                  upload_open(p, n, c, z, t, o)
    \/ UploadSteps(ItemStamps)
    \/ Idle /\ \E i \in IdInputs, k \in {"file", "folder"}, n \in ItemRenameInputs,
                  t \in ItemRenameStamps : rename_item(i, k, n, t)
    \/ Idle /\ \E i \in IdInputs, f \in BOOLEAN : delete_file(i, f)
    \/ Idle /\ \E i \in IdInputs : download_file(i)

ItemSpec == Init /\ [][ItemNext]_vars

\* ConcSpec is create_folder and upload_file running while delete_item of a
\* folder runs: the handlers hold no lock, so the steps of one request
\* interleave freely with the steps of the others.
ConcNext ==
    \/ \E n \in ItemNameInputs, p \in ConcParentInputs, t \in ItemStamps :
          create_folder(n, p, t)
    \/ \E p \in ConcParentInputs, n \in ItemNameInputs, c \in TreeContentTypes,
          z \in Sizes, t \in Clocks, o \in WriteOutcomes : upload_open(p, n, c, z, t, o)
    \/ UploadSteps(ItemStamps)
    \/ \E i \in ConcIdInputs : delete_folder_start(i)
    \/ DeleteSteps

ConcSpec == Init /\ [][ConcNext]_vars

\* PairSpec is uploads and deletes served one at a time where every parent_id
\* is null or the id of an existing folder (so the tree is acyclic), every
\* upload gets a path that no blob and no record has had, and os.remove never
\* raises.
ExistingParents == {None} \cup {Lo(i) : i \in DOMAIN folders}

PairNext ==
    \/ Idle /\ \E n \in ItemNameInputs, p \in ExistingParents, t \in ItemStamps :
                  create_folder(n, p, t)
    \/ Idle /\ \E p \in ExistingParents, n \in FileNameInputs, c \in TreeContentTypes,
                  z \in Sizes, t \in Clocks, o \in WriteOutcomes :
                  /\ DestPath(t, n) \notin blobs \cup everPaths
                  /\ upload_open(p, n, c, z, t, o)
    \/ UploadSteps(ItemStamps)
    \/ Idle /\ \E i \in IdInputs : delete_file(i, FALSE)
    \/ Idle /\ \E i \in IdInputs : delete_folder_start(i)
    \/ delete_one_file(FALSE)
    \/ delete_find_subfolders
    \/ delete_descend
    \/ delete_folder_self
    \/ delete_folder_return

PairSpec == Init /\ [][PairNext]_vars

----------------------------------------------------------------------------
(* The tree as the parent_id links describe it.  A folder g is a child of   *)
(* folder h when g.parent_id is h's identifier, which is how list_items and *)
(* delete_folder_recursive select children.                                 *)

ChildFolders(fs, S) == {g \in DOMAIN fs : \E h \in S : fs[g].parent_id = StrOf(h)}

RECURSIVE Closure(_, _, _)
Closure(fs, S, n) ==
    IF n = 0 THEN S ELSE Closure(fs, S \cup ChildFolders(fs, S), n - 1)

\* F and every folder reachable from it through parent_id links
SubtreeFolders(fs, F) == Closure(fs, {F}, Cardinality(DOMAIN fs))

\* the files whose parent_id is one of the folders D
FilesIn(fl, D) == {f \in DOMAIN fl : \E d \in D : fl[f].parent_id = StrOf(d)}

ProperDescendants(fs, f) == Closure(fs, ChildFolders(fs, {f}), Cardinality(DOMAIN fs))

\* no folder is below itself
AcyclicTree(fs) == \A f \in DOMAIN fs : f \notin ProperDescendants(fs, f)

DeleteCompleted == del.pc = "done" /\ del.status = 200

----------------------------------------------------------------------------
(* The parent chain as get_breadcrumbs resolves it: a parent_id names the   *)
(* folder whose ObjectId it spells.                                         *)

\* the folder the parent_id of f resolves to, or NoOid
ParentFolder(f) ==
    LET pid == folders[f].parent_id
    IN IF IsOidText(pid) /\ ObjectId(pid) \in DOMAIN folders THEN ObjectId(pid) ELSE NoOid

\* a parent_id that is not null and resolves to no folder record
Dangling(f) == folders[f].parent_id # None /\ ParentFolder(f) = NoOid

RECURSIVE AncestorsOrSelf(_, _)
AncestorsOrSelf(f, n) ==
    IF f = NoOid \/ n = 0 THEN {}
    ELSE {f} \cup AncestorsOrSelf(ParentFolder(f), n - 1)

ChainOf(f) == AncestorsOrSelf(f, Cardinality(DOMAIN folders))

\* the ObjectId a crumb's _id spells
CrumbId(c) == ObjectId(c._id)

----------------------------------------------------------------------------
(* C1: when delete_item(F, folder) on an acyclic tree has run to completion, *)
(* no folder and no file of F's subtree (as it was when the request began)   *)
(* is left, and list_items of every deleted folder id returns two empty      *)
(* lists.                                                                    *)

C1_DeleteRemovesSubtree ==
    (DeleteCompleted /\ AcyclicTree(del.pre.folders)) =>
        LET D == SubtreeFolders(del.pre.folders, del.target)
            DF == FilesIn(del.pre.files, D)
        IN /\ D \cap DOMAIN folders = {}
           /\ DF \cap DOMAIN files = {}
           /\ \A d \in D : ListFolders(StrOf(d)) = <<>> /\ ListFiles(StrOf(d)) = <<>>

\* a completed delete of a folder that held a subfolder, with a file below it
C1_Witness ==
    /\ DeleteCompleted /\ AcyclicTree(del.pre.folders)
    /\ LET D == SubtreeFolders(del.pre.folders, del.target)
       IN /\ Cardinality(D) >= 2
          /\ FilesIn(del.pre.files, D \ {del.target}) # {}

----------------------------------------------------------------------------
(* C2: get_breadcrumbs answers every request, also when the parent_id links *)
(* form a cycle: the walk does not go round the links for ever.             *)

C2_BreadcrumbsTerminate ==
    \A i \in IdInputs : Breadcrumbs(i).status # NoResponse

----------------------------------------------------------------------------
(* C3: delete_item(F, folder) on folders whose parent_id links form a cycle *)
(* notices the folder it is visiting again and stops there: no call of      *)
(* delete_folder_recursive is made on a folder that an enclosing call is    *)
(* still working on.                                                        *)

C3_DeleteDetectsCycle ==
    del.pc = "run" =>
        \A j, k \in 1..Len(del.stack) :
            j # k => del.stack[j].folder_id # del.stack[k].folder_id

----------------------------------------------------------------------------
(* C4: get_breadcrumbs of an id that no folder record has.  As claimed, the *)
(* answer is 404; as the code has it, the answer is 200 with an empty list. *)

Missing(i) == IsOidText(i) /\ ObjectId(i) \notin DOMAIN folders

\* C4 as claimed: the answer for a missing folder is 404
C4_MissingIsNotFound ==
    \A i \in IdInputs : Missing(i) => Breadcrumbs(i).status = 404

\* C4 as amended: the answer for a missing folder is 200 with an empty chain
C4_MissingIsEmptyChain ==
    \A i \in IdInputs :
        Missing(i) => Breadcrumbs(i) = [status |-> 200, breadcrumbs |-> <<>>]

\* the request has been answered 200 while no folder record exists, so for an
\* id that has been deleted or was never used
C4_Witness ==
    /\ resp = Resp("get_breadcrumbs", 200)
    /\ nextId > 1
    /\ DOMAIN folders = {}

----------------------------------------------------------------------------
(* C5: when the chain above a folder ends at a folder whose parent_id is    *)
(* not null and resolves to no folder record, get_breadcrumbs answers 200   *)
(* with the chain from that folder down to the start.                       *)

C5_DanglingParentIsRoot ==
    \A c \in DOMAIN folders : \A d \in ChainOf(c) :
        Dangling(d) =>
            LET r == Breadcrumbs(StrOf(c))
            IN /\ r.status = 200
               /\ r.breadcrumbs # <<>>
               /\ r.breadcrumbs[1]._id = StrOf(d)
               /\ r.breadcrumbs[Len(r.breadcrumbs)]._id = StrOf(c)

----------------------------------------------------------------------------
(* C6: for a folder c whose chain reaches a folder with null parent_id,     *)
(* get_breadcrumbs(c) answers 200 with the chain from that root down to c:  *)
(* the first crumb has null parent, each later crumb's parent_id names the  *)
(* crumb before it, the last crumb is c, and each crumb carries its         *)
(* folder's name.                                                           *)

Rooted(c) == \E r \in ChainOf(c) : folders[r].parent_id = None

SpellingsOf(c) == {i \in IdInputs : IsOidText(i) /\ ObjectId(i) = c}

C6_BreadcrumbsRootToLeaf ==
    \A c \in DOMAIN folders : \A i \in SpellingsOf(c) :
        Rooted(c) =>
            LET r == Breadcrumbs(i)
                b == r.breadcrumbs
            IN /\ r.status = 200
               /\ b # <<>>
               /\ folders[CrumbId(b[1])].parent_id = None
               /\ b[Len(b)]._id = StrOf(c)
               /\ \A k \in 2..Len(b) : ParentFolder(CrumbId(b[k])) = CrumbId(b[k - 1])
               /\ \A k \in 1..Len(b) : b[k].name = folders[CrumbId(b[k])].name

\* the request has been answered on a store with a chain root -> A -> B -> C
C6_Witness ==
    /\ resp = Resp("get_breadcrumbs", 200)
    /\ \E c \in DOMAIN folders :
          Rooted(c) /\ Len(Breadcrumbs(StrOf(c)).breadcrumbs) = 3

----------------------------------------------------------------------------
(* C7: every stored folder name and file name is non-empty and neither      *)
(* begins nor ends with whitespace.                                         *)

Trimmed(name) == name # <<>> /\ Head(name) # SP /\ name[Len(name)] # SP

C7_NamesTrimmed ==
    /\ \A i \in DOMAIN folders : Trimmed(folders[i].name)
    /\ \A i \in DOMAIN files : Trimmed(files[i].name)

----------------------------------------------------------------------------
(* C8: no two file records share a storage_path, and the path an upload     *)
(* stores is one that no file record holds or has held.                     *)

C8_StoragePathsFresh ==
    /\ \A i, j \in DOMAIN files :
          i # j => files[i].storage_path # files[j].storage_path
    /\ (up.pc = "done" /\ up.status = 200) => up.fresh

----------------------------------------------------------------------------
(* C9: delete_item(F, folder) on an acyclic tree removes the files directly  *)
(* under a folder first, then the whole subtree of each child folder, one    *)
(* sibling at a time, and the folder itself last: a folder record is only    *)
(* removed when no remaining folder or file has its id as parent_id.         *)

\* the call on stack[k] has cleared its files before it looks at a subfolder,
\* and every subfolder it has left behind is gone with its whole subtree
FrameInOrder(k) ==
    LET fr == del.stack[k]
        inside == IF k < Len(del.stack) THEN {del.stack[k + 1].folder_id} ELSE {}
    IN fr.at = "subs" =>
          /\ FilesWithParent(StrOf(fr.folder_id)) = {}
          /\ \A c \in ChildFolders(del.pre.folders, {fr.folder_id}) :
                \/ c \in fr.todo
                \/ c \in inside
                \/ /\ SubtreeFolders(del.pre.folders, c) \cap DOMAIN folders = {}
                   /\ FilesIn(del.pre.files, SubtreeFolders(del.pre.folders, c))
                         \cap DOMAIN files = {}

C9_DeleteOrder ==
    [][ (del.pc = "run" /\ AcyclicTree(del.pre.folders)) =>
          /\ \A k \in 1..Len(del.stack) : FrameInOrder(k)
          /\ \A d \in DOMAIN folders \ DOMAIN folders' :
                /\ FoldersWithParent(StrOf(d))' = {}
                /\ FilesWithParent(StrOf(d))' = {} ]_vars

\* the delete is about to remove a folder that had a file and a subfolder
C9_Witness ==
    /\ del.pc = "run" /\ AcyclicTree(del.pre.folders)
    /\ Top.at = "subs" /\ Top.todo = {}
    /\ ChildFolders(del.pre.folders, {Top.folder_id}) # {}
    /\ FilesIn(del.pre.files, {Top.folder_id}) # {}

----------------------------------------------------------------------------
(* C10: delete_item(id, file) of an existing file record answers 200 and     *)
(* leaves no record with that id, whether its blob exists, is missing or its *)
(* removal fails; and each file the recursive folder delete visits loses its *)
(* record whatever happens to its blob.                                      *)

C10_FileRecordAlwaysDeleted ==
    [][ /\ \A i \in IdInputs, f \in BOOLEAN :
              (delete_file(i, f) /\ IsOidText(i) /\ ObjectId(i) \in DOMAIN files) =>
                  /\ resp'.status = 200
                  /\ ObjectId(i) \notin DOMAIN files'
        /\ \A f \in BOOLEAN :
              delete_one_file(f) =>
                  /\ Top'.todo # Top.todo
                  /\ (Top.todo \ Top'.todo) \cap DOMAIN files' = {} ]_vars

\* a path that a deleted record held and that is still on disk
Leftover(p) == p \in blobs /\ p \in everPaths /\ \A i \in DOMAIN files : files[i].storage_path # p

\* file deletes have answered 200 where the blob's removal failed (the blob is
\* left over) and where the blob was there (a record that shared it has lost it)
C10_Witness ==
    /\ resp = Resp("delete_file", 200)
    /\ \E p \in blobs : Leftover(p)
    /\ \E i \in DOMAIN files : files[i].storage_path \notin blobs

----------------------------------------------------------------------------
(* C11: upload_file writes the blob before it inserts the record: the        *)
(* storage_path of a file record that a step inserts names a blob that was   *)
(* there before the step, and an upload whose blob write fails (answer 500)  *)
(* leaves the file records as they were.                                     *)

UploadFailed(u) == u.pc = "done" /\ u.status = 500

C11_BlobBeforeRecord ==
    [][ /\ \A i \in DOMAIN files' \ DOMAIN files : files'[i].storage_path \in blobs
        /\ (UploadFailed(up) \/ UploadFailed(up')) => files' = files ]_vars

\* an upload has inserted its record after an earlier upload's write failed
\* and left its partial blob, which no record has ever named
C11_Witness ==
    /\ up.pc = "done" /\ up.status = 200
    /\ files[up.id].storage_path \in blobs
    /\ \E p \in blobs : p \notin everPaths

----------------------------------------------------------------------------
(* C12: download_file(file_id) answers 404, and no other failure, when no    *)
(* file record has that id or the record's blob is gone; it serves the       *)
(* record's path with the record's mime_type and name only when record and   *)
(* blob both exist.  As claimed this is for every file_id; as the code has   *)
(* it, a file_id that is no ObjectId text is answered 400.                   *)

HasFileRecord(i) == IsOidText(i) /\ ObjectId(i) \in DOMAIN files

BlobOf(i) == files[ObjectId(i)].storage_path

\* the 200 response carries the record's path, mime_type and name
ServesRecord(i) ==
    LET r == Download(i)
    IN r.status = 200 =>
          /\ HasFileRecord(i) /\ BlobOf(i) \in blobs
          /\ r.path = BlobOf(i)
          /\ r.media_type = files[ObjectId(i)].mime_type
          /\ r.filename = files[ObjectId(i)].name

\* C12 as claimed: 404 for every file_id without a record or without a blob
C12_MissingIsNotFound ==
    \A i \in IdInputs :
        /\ (~HasFileRecord(i) \/ BlobOf(i) \notin blobs) => Download(i).status = 404
        /\ ServesRecord(i)

\* C12 as amended: 404 for every well-formed file_id without a record or
\* without a blob, 400 for a malformed one, 200 with the record's data otherwise
C12_WellFormedMissingIsNotFound ==
    \A i \in IdInputs :
        /\ IsOidText(i) =>
              /\ (~HasFileRecord(i) \/ BlobOf(i) \notin blobs) => Download(i).status = 404
              /\ (HasFileRecord(i) /\ BlobOf(i) \in blobs) => Download(i).status = 200
        /\ ~IsOidText(i) => Download(i).status = 400
        /\ ServesRecord(i)

\* a download has been answered 404 while a record's blob is gone through the
\* deletion of another file, another record is served with a declared content
\* type, and some id has no record
C12_Witness ==
    /\ resp = Resp("download_file", 404)
    /\ \E i \in IdInputs : HasFileRecord(i) /\ BlobOf(i) \notin blobs
                             /\ BlobOf(i) \in everPaths
    /\ \E i \in IdInputs : Download(i).status = 200 /\ Download(i).media_type # DefaultMimeType
    /\ \E i \in IdInputs : IsOidText(i) /\ ~HasFileRecord(i)

----------------------------------------------------------------------------
(* C13: rename_item answers 400 when the new name is empty after trimming    *)
(* and 404 when no record of the given kind has the id, also when the id is  *)
(* that of a record of the other kind; both failures leave every folder and  *)
(* file record as it was.  As claimed this is for every id; as the code has  *)
(* it, an id that is no ObjectId text is answered 400.                       *)

Kinds == {"file", "folder"}

\* a record of the given kind has the id
HasRecord(k, i) ==
    IsOidText(i) /\ ObjectId(i) \in (IF k = "file" THEN DOMAIN files ELSE DOMAIN folders)

RecordsUnchanged == folders' = folders /\ files' = files

----------------------------------------------------------------------------
(* C14: delete_item(id, folder) answers 404 and changes no record and no     *)
(* blob when no folder record has the id; a folder that a delete has removed *)
(* with 200 has no record, so a second delete of it is such a request.  As   *)
(* claimed this is for every id; as the code has it, an id that is no        *)
(* ObjectId text is answered 400.                                            *)

\* the request that has just ended found a folder record with its id
HadFolder == IsOidText(del.item_id) /\ ObjectId(del.item_id) \in DOMAIN del.pre.folders

StoreAsBefore ==
    folders = del.pre.folders /\ files = del.pre.files /\ blobs = del.pre.blobs

\* C14 as claimed: 404 for every id without a folder record
C14_MissingFolderIsNotFound ==
    del.pc = "done" =>
        /\ ~HadFolder => (del.status = 404 /\ StoreAsBefore)
        /\ del.status = 200 => del.target \notin DOMAIN folders

\* C14 as amended: 404 for every well-formed id without a folder record, 400
\* for a malformed id
C14_WellFormedMissingFolderIsNotFound ==
    del.pc = "done" =>
        /\ (IsOidText(del.item_id) /\ ~HadFolder) => (del.status = 404 /\ StoreAsBefore)
        /\ ~IsOidText(del.item_id) => (del.status = 400 /\ StoreAsBefore)
        /\ del.status = 200 => del.target \notin DOMAIN folders

\* a delete has answered 404 for an id that a folder had (no file was ever
\* inserted, and only a folder delete removes a folder) while a file names
\* nothing: the second delete of a deleted folder
C14_Witness ==
    /\ del.pc = "done" /\ del.status = 404
    /\ IsOidText(del.item_id) /\ ObjectId(del.item_id) < nextId
    /\ everPaths = {} /\ up.pc = "idle"

----------------------------------------------------------------------------
(* C15: for every name n that is not empty after trimming and every parent   *)
(* value p (null or a non-empty string, whether or not a folder has it as    *)
(* id), create_folder(n, p) answers 200, and in the state it leaves          *)
(* list_items(p) has a folder with the new id and the name trim(n), while    *)
(* list_items(q) for every other parent value q has no folder with that id.  *)

\* null and the identifier strings; the empty string is no identifier and is
\* read as null by create_folder and by list_items
ParentValues == ParentInputs \ {Empty}

HasEntry(list, id, name) ==
    \E k \in 1..Len(list) : list[k]._id = id /\ list[k].name = name

HasId(list, id) == \E k \in 1..Len(list) : list[k]._id = id

C15_CreateThenList ==
    [][ resp'.op = "create_folder" =>
        \A n \in TreeNameInputs \cup NameInputs, p \in ParentValues, t \in Clocks :
          (create_folder(n, p, t) /\ Strip(n) # <<>>) =>
             /\ resp'.status = 200
             /\ HasEntry(ListFolders(p)', StrOf(nextId), Strip(n))
             /\ \A q \in ParentValues \ {p} : ~HasId(ListFolders(q)', StrOf(nextId)) ]_vars

\* folders have been created under an id that no folder has and under a
\* string that is no ObjectId text
C15_Witness ==
    /\ resp = Resp("create_folder", 200)
    /\ \E i \in Ids : i \notin DOMAIN folders /\ ListFolders(Lo(i)) # <<>>
    /\ ListFolders(Bad) # <<>>

----------------------------------------------------------------------------
(* C16: in the state a successful rename_item(id, kind, new_name) leaves,    *)
(* list_items of the record's parent reports the record with the name        *)
(* trim(new_name), and every get_breadcrumbs response that has a crumb for   *)
(* the record gives it that name; a response whose chain passes through the  *)
(* record has such a crumb.  Stated as: the rename stores trim(new_name),    *)
(* and in every state every read reports the name the store holds, so the   *)
(* new name and no other is reported until the record is written again.     *)

\* the names list_items of the record's parent reports for the record
ListedNames(k, id) ==
    LET list == IF k = "file" THEN ListFiles(files[id].parent_id)
                ELSE ListFolders(folders[id].parent_id)
    IN {list[j].name : j \in {j \in 1..Len(list) : list[j]._id = StrOf(id)}}

\* the names the crumbs of the response to get_breadcrumbs(c) give the folder
CrumbNames(c, id) ==
    LET b == Breadcrumbs(c).breadcrumbs
    IN {b[j].name : j \in {j \in 1..Len(b) : b[j]._id = StrOf(id)}}

\* the answered requests whose chain passes through the folder
ChainsThrough(id) ==
    {c \in IdInputs : /\ IsOidText(c) /\ ObjectId(c) \in DOMAIN folders
                      /\ id \in ChainOf(ObjectId(c))
                      /\ Breadcrumbs(c).status = 200}

\* every read of the record reports this name and no other
ReadsReport(k, id, name) ==
    /\ ListedNames(k, id) = {name}
    /\ k = "folder" =>
          /\ \A c \in IdInputs :
                Breadcrumbs(c).status = 200 => CrumbNames(c, id) \subseteq {name}
          /\ \A c \in ChainsThrough(id) : CrumbNames(c, id) = {name}

\* the name the store holds for the record
StoredName(k, id) == IF k = "file" THEN files[id].name ELSE folders[id].name

\* the reads of every record report the name the store holds for it
ReadsReportStore ==
    /\ \A id \in DOMAIN files : ReadsReport("file", id, files[id].name)
    /\ \A id \in DOMAIN folders : ReadsReport("folder", id, folders[id].name)

C16_RenameReadAfterWrite ==
    /\ []ReadsReportStore
    /\ [][ resp' = Resp("rename_item", 200) =>
              \A i \in IdInputs, k \in Kinds, n \in NameInputs, t \in NameStamps :
                  rename_item(i, k, n, t) => StoredName(k, ObjectId(i))' = Strip(n) ]_vars

\* a rename has been answered 200 on a store where a chain of two folders
\* with different names is resolved and a file is listed
C16_Witness ==
    /\ resp = Resp("rename_item", 200)
    /\ DOMAIN files # {}
    /\ \E c \in DOMAIN folders :
          LET r == Breadcrumbs(StrOf(c))
          IN /\ r.status = 200 /\ Len(r.breadcrumbs) = 2
             /\ r.breadcrumbs[1].name # r.breadcrumbs[2].name

----------------------------------------------------------------------------
(* C17: create_folder or upload_file under a folder of F's subtree running   *)
(* while delete_item(F, folder) runs.  As claimed, once the requests have    *)
(* completed successfully no record is left whose parent_id is the id of a   *)
(* folder the delete removed.  As the code has it, the delete removes what   *)
(* the store held under F when the request began, and a record left under a  *)
(* removed folder is one that was inserted while the delete was running.     *)

\* the delete has answered 200 and no upload is between its write and its
\* insert
RequestsCompleted == DeleteCompleted /\ up.pc \in {"idle", "done"}

\* the records left whose parent_id is the id of a folder the delete removed
OrphanFolders == {r \in DOMAIN folders : \E d \in del.removed : folders[r].parent_id = StrOf(d)}
OrphanFiles == {r \in DOMAIN files : \E d \in del.removed : files[r].parent_id = StrOf(d)}

\* C17 as claimed: no orphan in any interleaving
C17_NoOrphanAfterConcurrentDelete ==
    RequestsCompleted => (OrphanFolders = {} /\ OrphanFiles = {})

\* C17 as amended: the subtree as it was when the delete began is gone, and
\* every orphan was inserted after the delete began
C17_OrphansAreLateInserts ==
    RequestsCompleted =>
        /\ OrphanFolders \cap DOMAIN del.pre.folders = {}
        /\ OrphanFiles \cap DOMAIN del.pre.files = {}
        /\ AcyclicTree(del.pre.folders) =>
              LET D == SubtreeFolders(del.pre.folders, del.target)
              IN /\ D \cap DOMAIN folders = {}
                 /\ FilesIn(del.pre.files, D) \cap DOMAIN files = {}

\* a delete has answered 200 after removing a folder and its file, and a
\* folder and a file created under removed folders meanwhile are left
C17_Witness ==
    /\ RequestsCompleted
    /\ OrphanFolders # {} /\ OrphanFiles # {}
    /\ DOMAIN del.pre.files # {}

----------------------------------------------------------------------------
(* C18: delete_item(F, folder) on an acyclic tree removes only F's subtree:  *)
(* every folder record outside the subtree and every file record whose       *)
(* parent is outside it is left as it was, and the blob of every such file   *)
(* that was there when the request began is still there when it ends.        *)

OutsideFolders == DOMAIN del.pre.folders \ SubtreeFolders(del.pre.folders, del.target)

OutsideFiles ==
    DOMAIN del.pre.files
        \ FilesIn(del.pre.files, SubtreeFolders(del.pre.folders, del.target))

\* the records outside the subtree are left as they were
OutsideRecordsKept ==
    /\ \A g \in OutsideFolders : g \in DOMAIN folders /\ folders[g] = del.pre.folders[g]
    /\ \A f \in OutsideFiles : f \in DOMAIN files /\ files[f] = del.pre.files[f]

\* the blobs of the files outside the subtree are left where they were
OutsideBlobsKept ==
    \A f \in OutsideFiles :
        del.pre.files[f].storage_path \in del.pre.blobs =>
            del.pre.files[f].storage_path \in blobs

C18_DeleteOnlySubtree ==
    (DeleteCompleted /\ AcyclicTree(del.pre.folders)) =>
        (OutsideRecordsKept /\ OutsideBlobsKept)

----------------------------------------------------------------------------
(* C19: between sequential upload_file, delete_item(file) and                *)
(* delete_item(folder) requests on an acyclic tree, with pairwise distinct   *)
(* storage paths, os.remove never raising and nothing else touching the      *)
(* upload directory, the blobs are exactly the storage paths of the file     *)
(* records: no record without its blob, no blob without a record.            *)

OwnedPaths == {files[i].storage_path : i \in DOMAIN files}

C19_BlobsMatchRecords ==
    Idle => (AcyclicTree(folders) /\ blobs = OwnedPaths)

----------------------------------------------------------------------------
(* C20: a rename_item(id, kind, new_name) answered 200 changes the name and  *)
(* updated_at of the one record of that kind with that id and nothing else:  *)
(* the record keeps its id, parent_id and created_at and, for a file, its    *)
(* size, mime_type and storage_path; every other record is left as it was;   *)
(* no blob is created or removed.                                            *)

\* the file record id keeps every field but name and updated_at, and the
\* other records are untouched
OnlyFileRenamed(id) ==
    /\ DOMAIN files' = DOMAIN files
    /\ files'[id].parent_id = files[id].parent_id
    /\ files'[id].created_at = files[id].created_at
    /\ files'[id].size = files[id].size
    /\ files'[id].mime_type = files[id].mime_type
    /\ files'[id].storage_path = files[id].storage_path
    /\ \A j \in DOMAIN files \ {id} : files'[j] = files[j]
    /\ folders' = folders

OnlyFolderRenamed(id) ==
    /\ DOMAIN folders' = DOMAIN folders
    /\ folders'[id].parent_id = folders[id].parent_id
    /\ folders'[id].created_at = folders[id].created_at
    /\ \A j \in DOMAIN folders \ {id} : folders'[j] = folders[j]
    /\ files' = files

C20_RenameChangesOnlyName ==
    [][ resp' = Resp("rename_item", 200) =>
          \A i \in IdInputs, k \in Kinds, n \in NameInputs, t \in Clocks :
              rename_item(i, k, n, t) =>
                  /\ IF k = "file" THEN OnlyFileRenamed(ObjectId(i))
                                   ELSE OnlyFolderRenamed(ObjectId(i))
                  /\ StoredName(k, ObjectId(i))' = Strip(n)
                  /\ blobs' = blobs ]_vars

\* a rename has been answered 200 where a folder and a file have both been
\* renamed, next to a file that has not, and blobs exist
C20_Witness ==
    /\ resp = Resp("rename_item", 200)
    /\ \E g \in DOMAIN folders : folders[g].updated_at # folders[g].created_at
    /\ \E f \in DOMAIN files : /\ files[f].updated_at # files[f].created_at
                                /\ files[f].storage_path \in blobs
    /\ \E f \in DOMAIN files : files[f].updated_at = files[f].created_at

====
